---------------------------- MODULE Spec2Model ----------------------------
(***************************************************************************)
(* Model of the technical-indicator pipeline of indicators.py.             *)
(*                                                                         *)
(* Floating-point numbers are modelled as fixed-point numbers: a float is  *)
(* either NaN or Def(v) with v an integer count of 10^-5 units.  The       *)
(* latest-value snapshot holds the values after round(..., 4) (counts of   *)
(* 10^-4) and round(..., 2) (counts of 10^-2).  Prices and volumes of the  *)
(* input bars are whole numbers.                                           *)
(*                                                                         *)
(* The module also models the watchlist file of watchlist.py and the       *)
(* session state of the dashboard of app.py.  A ticker is a sequence of    *)
(* one-character strings.                                                  *)
(***************************************************************************)
EXTENDS Integers, Sequences, FiniteSets, TLC

\* compute_all: the frame, the position in the function and its locals.
VARIABLES df, pc, ind, latest, interp, score, signal, result, exc

\* watchlist.py: the content of watchlist.json and the last call of add or
\* remove.  app.py: the entries of st.session_state.
VARIABLES file, call, watchlist, scan_cache, detail_ticker, ai_detail_cache

pipeline == <<df, pc, ind, latest, interp, score, signal, result, exc>>

session == <<file, call, watchlist, scan_cache, detail_ticker, ai_detail_cache>>

vars == <<pipeline, session>>

---------------------------------------------------------------------------
(* Bounds of the model *)

\* Longest input, in bars (the scenarios of the specification use it).
MaxBars == 40

---------------------------------------------------------------------------
(* Fixed-point floats *)

\* Units per 1.0 of a computed series value.
SCALE == 10^5

NaN == [def |-> FALSE, v |-> 0]

Def(x) == [def |-> TRUE, v |-> x]

IsNaN(a) == ~a.def

\* Comparisons of floats: every comparison with NaN is False.
Lt(a, b) == a.def /\ b.def /\ a.v < b.v

Gt(a, b) == a.def /\ b.def /\ a.v > b.v

Abs(x) == IF x < 0 THEN -x ELSE x

Max2(x, y) == IF x >= y THEN x ELSE y

Min2(x, y) == IF x <= y THEN x ELSE y

\* a / b rounded to the nearest integer, b > 0.
RDiv(a, b) == (2 * a + b) \div (2 * b)

\* The quotient a / b of non-negative a and positive b with d more decimal
\* digits, digit by digit (no intermediate product exceeds 10 * b).
RECURSIVE LongDiv(_, _, _)
LongDiv(a, b, d) ==
    IF d = 0 THEN <<a \div b, a % b>>
    ELSE LET p == LongDiv(a, b, d - 1)
         IN  <<10 * p[1] + ((10 * p[2]) \div b), (10 * p[2]) % b>>

\* Float division a / b of two counts of the same unit, as a count of
\* 10^-d units; b # 0.
FDiv(a, b, d) ==
    LET q == LongDiv(Abs(a), Abs(b), d)[1]
    IN  IF (a < 0) = (b < 0) THEN q ELSE -q

\* Integer square root (floor), by bisection on lo..hi.
RECURSIVE SqrtIn(_, _, _)
SqrtIn(x, lo, hi) ==
    IF lo >= hi THEN lo
    ELSE LET mid == (lo + hi + 1) \div 2
         IN  IF mid * mid <= x THEN SqrtIn(x, mid, hi) ELSE SqrtIn(x, lo, mid - 1)

ISqrt(x) == SqrtIn(x, 0, Min2(x, 46340))

\* Python round(float, ndigits): x is a count of units, the result a count of
\* units k times as large, ties to even; NaN stays NaN.
round(a, k) ==
    IF IsNaN(a) THEN NaN
    ELSE LET q == a.v \div k
             r == a.v % k
         IN  Def(IF 2 * r > k \/ (2 * r = k /\ q % 2 = 1) THEN q + 1 ELSE q)

\* Sum of the values f[i], i in lo..hi.
RECURSIVE SumOver(_, _, _)
SumOver(f, lo, hi) == IF lo > hi THEN 0 ELSE f[hi] + SumOver(f, lo, hi - 1)

\* floor((f[lo] + ... + f[hi]) / p), exactly and without forming the sum.
MeanOver(f, lo, hi, p) ==
    LET q == [i \in lo..hi |-> f[i] \div p]
        r == [i \in lo..hi |-> f[i] % p]
    IN  SumOver(q, lo, hi) + (SumOver(r, lo, hi) \div p)

---------------------------------------------------------------------------
(* Series: a sequence of floats aligned with the bars *)

\* A function on 1..n as the sequence it is (its n values, computed once).
Series(f) == f \o <<>>

\* A column of whole numbers as a float series.
AsFloat(col) == Series([i \in 1..Len(col) |-> Def(col[i] * SCALE)])

\* series.diff(): NaN at the first index.
diff(s) ==
    Series([i \in 1..Len(s) |->
        IF i = 1 \/ IsNaN(s[i]) \/ IsNaN(s[i - 1]) THEN NaN
        ELSE Def(s[i].v - s[i - 1].v)])

\* series.shift(): NaN at the first index.
shift(s) == Series([i \in 1..Len(s) |-> IF i = 1 THEN NaN ELSE s[i - 1]])

\* TRUE iff the trailing window of p elements ending at i is full and holds
\* no NaN (pandas rolling with min_periods = window).
WindowOk(s, p, i) == i >= p /\ \A j \in (i - p + 1)..i : ~IsNaN(s[j])

Vals(s) == Series([i \in 1..Len(s) |-> s[i].v])

RECURSIVE MinOver(_, _, _)
MinOver(f, lo, hi) == IF lo = hi THEN f[lo] ELSE Min2(f[hi], MinOver(f, lo, hi - 1))

RECURSIVE MaxOver(_, _, _)
MaxOver(f, lo, hi) == IF lo = hi THEN f[lo] ELSE Max2(f[hi], MaxOver(f, lo, hi - 1))

\* series.rolling(p).mean()
rolling_mean(s, p) ==
    Series([i \in 1..Len(s) |->
        IF WindowOk(s, p, i) THEN Def(MeanOver(Vals(s), i - p + 1, i, p)) ELSE NaN])

\* series.rolling(p).min() and .max()
rolling_min(s, p) ==
    Series([i \in 1..Len(s) |->
        IF WindowOk(s, p, i) THEN Def(MinOver(Vals(s), i - p + 1, i)) ELSE NaN])

rolling_max(s, p) ==
    Series([i \in 1..Len(s) |->
        IF WindowOk(s, p, i) THEN Def(MaxOver(Vals(s), i - p + 1, i)) ELSE NaN])

\* series.rolling(p).std(): sample standard deviation (divisor p - 1).  The
\* deviations from the window mean are taken in 10^-3 units, so the result
\* is a multiple of 10^-3; it is 0 exactly when the window is constant.
rolling_std(s, p) ==
    Series([i \in 1..Len(s) |->
        IF ~WindowOk(s, p, i) THEN NaN
        ELSE LET m  == MeanOver(Vals(s), i - p + 1, i, p)
                 d2 == [j \in (i - p + 1)..i |->
                           LET d == RDiv(s[j].v - m, SCALE \div 1000) IN d * d]
             IN  Def(ISqrt(MeanOver(d2, i - p + 1, i, p - 1)) * (SCALE \div 1000))])

\* series.ewm(alpha = num/den, adjust=False).mean():
\*   y[t] = (1 - alpha) * y[t-1] + alpha * x[t], seeded with the first
\* observation; NaN until the first observation, and a later NaN input
\* repeats the previous output (the inputs here hold a NaN at their first
\* index only).  A value equal to the running mean leaves it unchanged
\* (constant series stay exactly constant).
RECURSIVE ewm(_, _, _, _)
ewm(s, num, den, n) ==
    IF n = 0 THEN <<>>
    ELSE LET prev == ewm(s, num, den, n - 1)
             x    == s[n]
             y    == IF n = 1 THEN NaN ELSE prev[n - 1]
         IN  Append(prev,
                 IF IsNaN(x) THEN y
                 ELSE IF IsNaN(y) THEN x
                 ELSE Def(y.v + RDiv(num * (x.v - y.v), den)))

---------------------------------------------------------------------------
(* Trend *)

\* ewm(span=period): alpha = 2 / (period + 1)
ema(series, period) == ewm(series, 2, period + 1, Len(series))

sma(series, period) == rolling_mean(series, period)

\* Series of the element-wise difference a - b.
Minus(a, b) ==
    Series([i \in 1..Len(a) |->
        IF IsNaN(a[i]) \/ IsNaN(b[i]) THEN NaN ELSE Def(a[i].v - b[i].v)])

\* Returns <<macd_line, signal_line, histogram>>.
macd(close, fast, slow, sig) ==
    LET fast_ema    == ema(close, fast)
        slow_ema    == ema(close, slow)
        macd_line   == Minus(fast_ema, slow_ema)
        signal_line == ema(macd_line, sig)
        histogram   == Minus(macd_line, signal_line)
    IN  <<macd_line, signal_line, histogram>>

ema_crossover_Swapped(close, short, long) == <<ema(close, long), ema(close, short)>>

\* Returns <<short_ema, long_ema>>.
ema_crossover(close, short, long) == <<ema(close, short), ema(close, long)>>

---------------------------------------------------------------------------
(* Momentum *)

\* delta.clip(lower=0) and delta.clip(upper=0); NaN stays NaN.
clip_lower0(s) ==
    Series([i \in 1..Len(s) |-> IF IsNaN(s[i]) THEN NaN ELSE Def(Max2(s[i].v, 0))])

clip_upper0(s) ==
    Series([i \in 1..Len(s) |-> IF IsNaN(s[i]) THEN NaN ELSE Def(Min2(s[i].v, 0))])

Neg(s) == Series([i \in 1..Len(s) |-> IF IsNaN(s[i]) THEN NaN ELSE Def(-s[i].v)])

\* series.replace(0, np.nan)
replace0(s) ==
    Series([i \in 1..Len(s) |-> IF IsNaN(s[i]) \/ s[i].v = 0 THEN NaN ELSE s[i]])

\* 100 - (100 / (1 + rs)) with rs = avg_gain / avg_loss, avg_loss neither
\* NaN nor 0, avg_gain >= 0.
RsiValue(avg_gain, avg_loss) ==
    LET rs == FDiv(avg_gain, avg_loss, 5)
    IN  100 * SCALE - FDiv(100 * SCALE, SCALE + rs, 5)

\* The smoothed gains and losses of rsi: ewm(com = period - 1), that is
\* alpha = 1 / period.
AvgGain(close, period) == ewm(clip_lower0(diff(close)), 1, period, Len(close))

AvgLoss(close, period) == ewm(Neg(clip_upper0(diff(close))), 1, period, Len(close))

rsi(close, period) ==
    LET avg_gain == AvgGain(close, period)
        avg_loss == AvgLoss(close, period)
        den      == replace0(avg_loss)
    IN  Series([i \in 1..Len(close) |->
            IF IsNaN(avg_gain[i]) \/ IsNaN(den[i]) THEN NaN
            ELSE Def(RsiValue(avg_gain[i].v, den[i].v))])

stochastic_Inverted(high, low, close, k_period, d_period) ==
    LET lowest_low   == rolling_min(low, k_period)
        highest_high == rolling_max(high, k_period)
        range        == replace0(Minus(highest_high, lowest_low))
        k == Series([i \in 1..Len(close) |->
                 IF IsNaN(close[i]) \/ IsNaN(highest_high[i]) \/ IsNaN(range[i])
                 THEN NaN
                 ELSE Def(FDiv(100 * (highest_high[i].v - close[i].v), range[i].v, 5))])
        d == rolling_mean(k, d_period)
    IN  <<k, d>>

\* Returns <<%K, %D>>.
stochastic(high, low, close, k_period, d_period) ==
    LET lowest_low   == rolling_min(low, k_period)
        highest_high == rolling_max(high, k_period)
        range        == replace0(Minus(highest_high, lowest_low))
        k == Series([i \in 1..Len(close) |->
                 IF IsNaN(close[i]) \/ IsNaN(lowest_low[i]) \/ IsNaN(range[i])
                 THEN NaN
                 ELSE Def(FDiv(100 * (close[i].v - lowest_low[i].v), range[i].v, 5))])
        d == rolling_mean(k, d_period)
    IN  <<k, d>>

---------------------------------------------------------------------------
(* Volatility *)

\* Returns <<upper, middle, lower>>; std_dev is a whole number of deviations.
bollinger_bands(close, period, std_dev) ==
    LET middle == sma(close, period)
        std    == rolling_std(close, period)
        upper  == Series([i \in 1..Len(close) |->
                      IF IsNaN(middle[i]) \/ IsNaN(std[i]) THEN NaN
                      ELSE Def(middle[i].v + std_dev * std[i].v)])
        lower  == Series([i \in 1..Len(close) |->
                      IF IsNaN(middle[i]) \/ IsNaN(std[i]) THEN NaN
                      ELSE Def(middle[i].v - std_dev * std[i].v)])
    IN  <<upper, middle, lower>>

\* abs() of a series
AbsS(s) == Series([i \in 1..Len(s) |-> IF IsNaN(s[i]) THEN NaN ELSE Def(Abs(s[i].v))])

\* max(axis=1) of three columns: NaN entries are skipped, NaN if all are.
RowMax3(a, b, c) ==
    Series([i \in 1..Len(a) |->
        LET present == {x \in {a[i], b[i], c[i]} : ~IsNaN(x)}
        IN  IF present = {} THEN NaN
            ELSE CHOOSE x \in present : \A y \in present : y.v <= x.v])

\* Average True Range.
atr(high, low, close, period) ==
    LET tr == RowMax3(Minus(high, low),
                      AbsS(Minus(high, shift(close))),
                      AbsS(Minus(low, shift(close))))
    IN  ewm(tr, 1, period, Len(close))

---------------------------------------------------------------------------
(* Volume *)

Sign(x) == IF x > 0 THEN 1 ELSE IF x < 0 THEN -1 ELSE 0

RECURSIVE cumsum(_, _)
cumsum(s, n) ==
    IF n = 0 THEN <<>>
    ELSE LET prev == cumsum(s, n - 1)
         IN  Append(prev, IF n = 1 THEN s[1] ELSE Def(prev[n - 1].v + s[n].v))

\* On-Balance Volume: np.sign(close.diff()).fillna(0) * volume, summed.
obv(close, volume) ==
    LET delta     == diff(close)
        direction == Series([i \in 1..Len(close) |->
                         IF IsNaN(delta[i]) THEN 0 ELSE Sign(delta[i].v)])
        signed    == Series([i \in 1..Len(close) |-> Def(direction[i] * volume[i].v)])
    IN  cumsum(signed, Len(close))

volume_sma(volume, period) == rolling_mean(volume, period)

---------------------------------------------------------------------------
(* Input frames *)

\* len(df) < MinBars gives the empty result.
MinBars == 30

\* The columns compute_all reads.
RequiredColumns == {"Close", "High", "Low", "Volume"}

AllColumns == {"Open"} \cup RequiredColumns

\* Close of the first bar of a rising or flat series (and the lowest close of
\* a falling one).
BasePrice == 100

\* Input lengths: empty, both sides of MinBars, and MaxBars.
Lengths == {0, MinBars - 1, MinBars, MaxBars}

\* Price change per bar.
Slopes == {-3, -1, 0, 1, 3}

\* Number of final bars that follow the second slope.
TailLengths == {0, 2, 6, 12}

\* High is close + spread and low is close - spread.  A negative spread gives
\* bars whose fields are finite numbers but whose close lies above the high
\* and below the low: nothing in fetch_ohlcv or compute_all orders the fields.
Spreads == {-1, 0, 1}

\* <<volume of every bar but the last, volume of the last bar>>
VolumeShapes == {<<10, 10>>, <<10, 16>>, <<10, 4>>, <<0, 10>>}

\* Close of bar i of an n-bar series with slope s1 and, on the last k bars,
\* slope s2.
CloseAt(n, s1, s2, k, i) ==
    LET start == IF s1 >= 0 THEN BasePrice ELSE BasePrice - s1 * (n - 1)
        brk   == n - k
    IN  start + s1 * (Min2(i, brk) - 1) + s2 * Max2(0, i - brk)

\* The frame: its length and its columns, each a sequence of whole numbers.
FrameOf(close, spread, vol, columns) ==
    LET n   == Len(close)
        all == [Open   |-> close,
                High   |-> [i \in 1..n |-> close[i] + spread],
                Low    |-> [i \in 1..n |-> close[i] - spread],
                Close  |-> close,
                Volume |-> [i \in 1..n |-> IF i = n THEN vol[2] ELSE vol[1]]]
    IN  [n |-> n, col |-> [c \in columns |-> all[c]]]

MkDf(n, s1, s2, k, spread, vol, columns) ==
    FrameOf([i \in 1..n |-> CloseAt(n, s1, s2, k, i)], spread, vol, columns)

\* Closes, as offsets from BasePrice, of two 30-bar series that wander by one
\* unit per bar and whose MACD line meets its signal line at the last bar:
\* in the first the rounded histogram is 0 while the rounded MACD is above
\* the rounded signal, in the second the rounded MACD and signal are equal.
WanderingOffsets ==
    {<<0, 0, 1, 2, 3, 4, 4, 3, 3, 3, 4, 4, 5, 6, 6, 7, 6, 7, 7, 6,
       5, 6, 6, 7, 8, 7, 7, 8, 8, 8>>,
     <<0, 1, 0, -1, -1, 0, -1, -1, -1, 0, 1, 1, 1, 2, 1, 1, 2, 1, 1, 2,
       2, 3, 4, 5, 5, 6, 5, 4, 3, 3>>}

Wandering(offsets) == [i \in 1..Len(offsets) |-> BasePrice + offsets[i]]

\* Frames with every column, and frames that lack one required column.
ColumnSets == {AllColumns} \cup {AllColumns \ {c} : c \in RequiredColumns}

\* df.empty: no rows or no columns.
Empty(d) == d.n = 0 \/ DOMAIN d.col = {}

\* The guard of compute_all: df.empty or len(df) < 30.
TooShort_Off(d) == Empty(d) \/ d.n < MinBars - 1

TooShort(d) == Empty(d) \/ d.n < MinBars

\* The empty dict {}.
EmptyResult == <<>>

EmptyDict == [k \in {} |-> <<>>]

\* No call of watchlist.add or watchlist.remove has been made.
NoCall == [op |-> "none", before |-> <<>>, after |-> <<>>]

None == <<>>

Init ==
    /\ \/ \E n \in Lengths, s1 \in Slopes, s2 \in Slopes, k \in TailLengths,
             spread \in Spreads, vol \in VolumeShapes, columns \in ColumnSets :
               df = MkDf(n, s1, s2, k, spread, vol, columns)
       \/ \E offsets \in WanderingOffsets, spread \in Spreads, vol \in VolumeShapes :
               df = FrameOf(Wandering(offsets), spread, vol, AllColumns)
    /\ pc = "start"
    /\ ind = None
    /\ latest = None
    /\ interp = None
    /\ score = 0
    /\ signal = "none"
    /\ result = None
    /\ exc = "none"
    /\ file = <<>>
    /\ call = NoCall
    /\ watchlist = <<>>
    /\ scan_cache = EmptyDict
    /\ detail_ticker = None
    /\ ai_detail_cache = EmptyDict

---------------------------------------------------------------------------
(* compute_all, step by step *)

\* if df.empty or len(df) < 30: return {}
CheckBars ==
    /\ pc = "start"
    /\ UNCHANGED session
    /\ IF TooShort(df)
       THEN /\ result' = EmptyResult
            /\ pc' = "done"
       ELSE /\ pc' = "columns"
            /\ UNCHANGED result
    /\ UNCHANGED <<df, ind, latest, interp, score, signal, exc>>

\* close = df["Close"] ... volume = df["Volume"]: KeyError on a missing column
SelectColumns ==
    /\ pc = "columns"
    /\ UNCHANGED session
    /\ IF RequiredColumns \subseteq DOMAIN df.col
       THEN /\ pc' = "compute"
            /\ UNCHANGED exc
       ELSE /\ pc' = "raised"
            /\ exc' = "KeyError"
    /\ UNCHANGED <<df, ind, latest, interp, score, signal, result>>

\* The indicator series of the frame d.
Indicators(d) ==
    LET close  == AsFloat(d.col.Close)
        high   == AsFloat(d.col.High)
        low    == AsFloat(d.col.Low)
        volume == AsFloat(d.col.Volume)
        m      == macd(close, 12, 26, 9)
        e      == ema_crossover(close, 9, 21)
        bb     == bollinger_bands(close, 20, 2)
        st     == stochastic(high, low, close, 14, 3)
    IN  [rsi_vals  |-> rsi(close, 14),
         macd_line |-> m[1], sig_line |-> m[2], hist |-> m[3],
         short_ema |-> e[1], long_ema |-> e[2],
         bb_upper  |-> bb[1], bb_mid |-> bb[2], bb_lower |-> bb[3],
         stoch_k   |-> st[1], stoch_d |-> st[2],
         atr_vals  |-> atr(high, low, close, 14),
         obv_vals  |-> obv(close, volume),
         vol_avg   |-> volume_sma(volume, 20)]

Compute ==
    /\ pc = "compute"
    /\ UNCHANGED session
    /\ ind' = Indicators(df)
    /\ pc' = "latest"
    /\ UNCHANGED <<df, latest, interp, score, signal, result, exc>>

\* series.iloc[-1]
Last(s) == s[Len(s)]

\* int(float): truncation of a non-negative value.
int(a) == a.v \div SCALE

\* The latest-values dict.  Entries rounded to 4 digits count 10^-4 units,
\* those rounded to 2 digits count 10^-2 units, volumes are whole numbers.
LatestOf(d, i) ==
    [close       |-> round(Last(AsFloat(d.col.Close)), 10),
     rsi         |-> round(Last(i.rsi_vals), 1000),
     macd        |-> round(Last(i.macd_line), 10),
     macd_signal |-> round(Last(i.sig_line), 10),
     macd_hist   |-> round(Last(i.hist), 10),
     ema_short   |-> round(Last(i.short_ema), 10),
     ema_long    |-> round(Last(i.long_ema), 10),
     bb_upper    |-> round(Last(i.bb_upper), 10),
     bb_mid      |-> round(Last(i.bb_mid), 10),
     bb_lower    |-> round(Last(i.bb_lower), 10),
     stoch_k     |-> round(Last(i.stoch_k), 1000),
     stoch_d     |-> round(Last(i.stoch_d), 1000),
     atr         |-> round(Last(i.atr_vals), 10),
     volume      |-> int(Last(AsFloat(d.col.Volume))),
     volume_avg  |-> int(Last(i.vol_avg))]

\* latest = {...}; int() of a NaN raises ValueError
Latest ==
    /\ pc = "latest"
    /\ UNCHANGED session
    /\ IF IsNaN(Last(ind.vol_avg))
       THEN /\ pc' = "raised"
            /\ exc' = "ValueError"
            /\ UNCHANGED latest
       ELSE /\ latest' = LatestOf(df, ind)
            /\ pc' = "interp"
            /\ UNCHANGED exc
    /\ UNCHANGED <<df, ind, interp, score, signal, result>>

\* A whole number as a snapshot value of 2 digits and of 4 digits.
N2(x) == Def(x * 100)

\* f"{x:.1f}" of a 2-digit value: one digit is kept; NaN prints as nan.
Fmt1(x) == round(x, 10)

InterpRsi(r) ==
    IF Lt(r, N2(30)) THEN [label |-> "Oversold", args |-> <<Fmt1(r)>>]
    ELSE IF Gt(r, N2(70)) THEN [label |-> "Overbought", args |-> <<Fmt1(r)>>]
    ELSE [label |-> "Neutral", args |-> <<Fmt1(r)>>]

InterpMacd_NoHist(l) ==
    IF Gt(l.macd, l.macd_signal)
    THEN [label |-> "Bullish", args |-> <<>>]
    ELSE IF Lt(l.macd, l.macd_signal)
    THEN [label |-> "Bearish", args |-> <<>>]
    ELSE [label |-> "Crossing", args |-> <<>>]

InterpMacd(l) ==
    IF Gt(l.macd, l.macd_signal) /\ Gt(l.macd_hist, Def(0))
    THEN [label |-> "Bullish", args |-> <<>>]
    ELSE IF Lt(l.macd, l.macd_signal) /\ Lt(l.macd_hist, Def(0))
    THEN [label |-> "Bearish", args |-> <<>>]
    ELSE [label |-> "Crossing", args |-> <<>>]

InterpEma(l) ==
    IF Gt(l.ema_short, l.ema_long)
    THEN [label |-> "Bullish", args |-> <<>>]
    ELSE [label |-> "Bearish", args |-> <<>>]

\* The else branch of the Bollinger interpretation divides by
\* bb_upper - bb_lower: Python raises ZeroDivisionError when it is 0.
BbDividesByZero(l) ==
    /\ ~Gt(l.close, l.bb_upper)
    /\ ~Lt(l.close, l.bb_lower)
    /\ ~IsNaN(l.bb_upper) /\ ~IsNaN(l.bb_lower)
    /\ l.bb_upper.v - l.bb_lower.v = 0

\* pct = (c - bb_lower) / (bb_upper - bb_lower) * 100, printed with no digit.
InterpBb(l) ==
    IF Gt(l.close, l.bb_upper) THEN [label |-> "above upper", args |-> <<>>]
    ELSE IF Lt(l.close, l.bb_lower) THEN [label |-> "below lower", args |-> <<>>]
    ELSE LET pct == IF IsNaN(l.bb_upper) \/ IsNaN(l.bb_lower) THEN NaN
                    ELSE Def(FDiv(l.close.v - l.bb_lower.v,
                                  l.bb_upper.v - l.bb_lower.v, 5) * 100)
         IN  [label |-> "within bands", args |-> <<round(pct, SCALE)>>]

InterpStoch(sk, sd) ==
    IF Lt(sk, N2(20)) /\ Lt(sd, N2(20))
    THEN [label |-> "Oversold", args |-> <<Fmt1(sk), Fmt1(sd)>>]
    ELSE IF Gt(sk, N2(80)) /\ Gt(sd, N2(80))
    THEN [label |-> "Overbought", args |-> <<Fmt1(sk), Fmt1(sd)>>]
    ELSE [label |-> "Neutral", args |-> <<Fmt1(sk), Fmt1(sd)>>]

\* vol_ratio = volume / volume_avg if volume_avg else 1
VolRatio(l) ==
    IF l.volume_avg # 0 THEN Def(FDiv(l.volume, l.volume_avg, 5)) ELSE Def(SCALE)

InterpVolume(l) ==
    LET vol_ratio == VolRatio(l)
        shown     == round(vol_ratio, SCALE \div 10)
    IN  IF Gt(vol_ratio, Def(15 * (SCALE \div 10)))
        THEN [label |-> "High volume", args |-> <<shown>>]
        ELSE IF Lt(vol_ratio, Def(5 * (SCALE \div 10)))
        THEN [label |-> "Low volume", args |-> <<shown>>]
        ELSE [label |-> "Normal volume", args |-> <<shown>>]

\* The interp dict.
InterpOf(l) ==
    [rsi       |-> InterpRsi(l.rsi),
     macd      |-> InterpMacd(l),
     ema_cross |-> InterpEma(l),
     bb        |-> InterpBb(l),
     stoch     |-> InterpStoch(l.stoch_k, l.stoch_d),
     volume    |-> InterpVolume(l)]

Interpret ==
    /\ pc = "interp"
    /\ UNCHANGED session
    /\ IF BbDividesByZero(latest)
       THEN /\ pc' = "raised"
            /\ exc' = "ZeroDivisionError"
            /\ UNCHANGED interp
       ELSE /\ interp' = InterpOf(latest)
            /\ pc' = "score"
            /\ UNCHANGED exc
    /\ UNCHANGED <<df, ind, latest, score, signal, result>>

RsiVote_Trend(r) == IF Lt(r, N2(35)) THEN -1 ELSE IF Gt(r, N2(65)) THEN 1 ELSE 0

\* The three votes of the composite score.
RsiVote(r) == IF Lt(r, N2(35)) THEN 1 ELSE IF Gt(r, N2(65)) THEN -1 ELSE 0

MacdVote(l) == IF Gt(l.macd, l.macd_signal) THEN 1 ELSE -1

EmaVote(l) == IF Gt(l.ema_short, l.ema_long) THEN 1 ELSE -1

ScoreOf_Wide(l) ==
    RsiVote(l.rsi) + MacdVote(l) + EmaVote(l)
        + (IF Lt(l.stoch_k, N2(20)) THEN 1 ELSE IF Gt(l.stoch_k, N2(80)) THEN -1 ELSE 0)

ScoreOf(l) == 0 + RsiVote(l.rsi) + MacdVote(l) + EmaVote(l)

SignalOf_Loose(s) == IF s >= 1 THEN "BUY" ELSE IF s <= -1 THEN "SELL" ELSE "HOLD"

SignalOf_Strict(s) == IF s > 2 THEN "BUY" ELSE IF s < -2 THEN "SELL" ELSE "HOLD"

SignalOf(s) == IF s >= 2 THEN "BUY" ELSE IF s <= -2 THEN "SELL" ELSE "HOLD"

Score ==
    /\ pc = "score"
    /\ UNCHANGED session
    /\ score' = ScoreOf(latest)
    /\ signal' = SignalOf(score')
    /\ pc' = "return"
    /\ UNCHANGED <<df, ind, latest, interp, result, exc>>

SeriesOf_NoObv(i) ==
    [rsi       |-> i.rsi_vals,
     macd_line |-> i.macd_line,
     sig_line  |-> i.sig_line,
     hist      |-> i.hist,
     bb_upper  |-> i.bb_upper,
     bb_mid    |-> i.bb_mid,
     bb_lower  |-> i.bb_lower,
     ema_short |-> i.short_ema,
     ema_long  |-> i.long_ema]

\* The series handed to the charts.
SeriesOf(i) ==
    [rsi       |-> i.rsi_vals,
     macd_line |-> i.macd_line,
     sig_line  |-> i.sig_line,
     hist      |-> i.hist,
     bb_upper  |-> i.bb_upper,
     bb_mid    |-> i.bb_mid,
     bb_lower  |-> i.bb_lower,
     ema_short |-> i.short_ema,
     ema_long  |-> i.long_ema,
     obv       |-> i.obv_vals]

Return ==
    /\ pc = "return"
    /\ UNCHANGED session
    /\ result' = [values |-> latest, interp |-> interp, score |-> score,
                  signal |-> signal, series |-> SeriesOf(ind)]
    /\ pc' = "done"
    /\ UNCHANGED <<df, ind, latest, interp, score, signal, exc>>

Next ==
    \/ CheckBars
    \/ SelectColumns
    \/ Compute
    \/ Latest
    \/ Interpret
    \/ Score
    \/ Return

Spec == Init /\ [][Next]_vars

---------------------------------------------------------------------------
(* watchlist.py *)

\* str.strip(): leading and trailing blanks removed.
RECURSIVE lstrip(_)
lstrip(s) == IF s # <<>> /\ Head(s) = " " THEN lstrip(Tail(s)) ELSE s

RECURSIVE rstrip(_)
rstrip(s) ==
    IF s # <<>> /\ s[Len(s)] = " " THEN rstrip(SubSeq(s, 1, Len(s) - 1)) ELSE s

strip(s) == rstrip(lstrip(s))

\* str.upper(), on the letters the model uses.
UpperChar(c) == IF c = "a" THEN "A" ELSE IF c = "b" THEN "B" ELSE c

upper(s) == Series([i \in 1..Len(s) |-> UpperChar(s[i])])

\* t in tickers
In(t, tickers) == \E i \in 1..Len(tickers) : tickers[i] = t

\* save(tickers): watchlist.json holds the JSON array of the tickers, the
\* same strings in the same order.
save(tickers) == tickers

\* add(ticker, tickers).  ret is the returned list, arg the list that was
\* passed as it is after the call, saved whether save() was called.
add_NoMembershipTest(ticker, tickers) ==
    LET t == upper(strip(ticker))
    IN  IF t # <<>>
        THEN [ret |-> tickers \o <<t>>, arg |-> tickers, saved |-> TRUE]
        ELSE [ret |-> tickers, arg |-> tickers, saved |-> FALSE]

add(ticker, tickers) ==
    LET t == upper(strip(ticker))
    IN  IF t # <<>> /\ ~In(t, tickers)
        THEN [ret |-> tickers \o <<t>>, arg |-> tickers, saved |-> TRUE]
        ELSE [ret |-> tickers, arg |-> tickers, saved |-> FALSE]

\* [t for t in tickers if t != ticker]
RECURSIVE Without(_, _)
Without(tickers, ticker) ==
    IF tickers = <<>> THEN <<>>
    ELSE IF Head(tickers) = ticker THEN Without(Tail(tickers), ticker)
    ELSE <<Head(tickers)>> \o Without(Tail(tickers), ticker)

\* remove(ticker, tickers): always saves.
remove(ticker, tickers) ==
    [ret |-> Without(tickers, ticker), arg |-> tickers, saved |-> TRUE]

\* The effect of a call on watchlist.json and on the record of the call.
Called(op, r) ==
    /\ file' = IF r.saved THEN save(r.ret) ELSE file
    /\ call' = [op |-> op, before |-> watchlist, after |-> r.arg]

\* Text typed by the user or passed by a caller.
TickerInputs ==
    {<<>>, <<" ">>, <<"A">>, <<"a">>, <<" ", "a", " ">>, <<"B">>, <<"b", " ">>,
     <<"A", "B">>}

\* Content of watchlist.json when the program starts: a list without
\* duplicates.
StoredLists == {<<>>, <<<<"A">>>>, <<<<"A">>, <<"B">>>>}

\* A hand-edited file may hold a lower-case ticker.
HandEditedLists == {<<<<"a">>, <<"B">>>>}

\* load()
load == file

PipelineIdle ==
    /\ df = None
    /\ pc = "idle"
    /\ ind = None
    /\ latest = None
    /\ interp = None
    /\ score = 0
    /\ signal = "none"
    /\ result = None
    /\ exc = "none"

InitWatchlist ==
    /\ PipelineIdle
    /\ file \in StoredLists \cup HandEditedLists
    /\ watchlist = load
    /\ call = NoCall
    /\ scan_cache = EmptyDict
    /\ detail_ticker = None
    /\ ai_detail_cache = EmptyDict

\* tickers = add(ticker, tickers)
CallAdd ==
    \E ticker \in TickerInputs :
        LET r == add(ticker, watchlist)
        IN  /\ watchlist' = r.ret
            /\ Called("add", r)
            /\ UNCHANGED <<pipeline, scan_cache, detail_ticker, ai_detail_cache>>

\* tickers = remove(ticker, tickers)
CallRemove ==
    \E ticker \in TickerInputs :
        LET r == remove(ticker, watchlist)
        IN  /\ watchlist' = r.ret
            /\ Called("remove", r)
            /\ UNCHANGED <<pipeline, scan_cache, detail_ticker, ai_detail_cache>>

NextWatchlist ==
    \/ CallAdd
    \/ CallRemove

SpecWatchlist == InitWatchlist /\ [][NextWatchlist]_vars

---------------------------------------------------------------------------
(* app.py: the dashboard session *)

\* dict[k] = v and dict.pop(k, None)
Put(d, k, v) == [x \in DOMAIN d \cup {k} |-> IF x = k THEN v ELSE d[x]]

Pop(d, k) == [x \in DOMAIN d \ {k} |-> d[x]]

\* What compute_all returns for the bars fetched during a scan, reduced to
\* the fields the dashboard reads.
ScanOutcomes == {EmptyResult, [score |-> 2, signal |-> "BUY"]}

\* Text typed into the add_ticker form.
TypedTickers == {<<>>, <<" ", "a", " ">>, <<"B">>}

_stars_n(sc) ==
    IF sc <= -2 THEN 1
    ELSE IF sc = -1 THEN 2
    ELSE IF sc = 0 THEN 3
    ELSE IF sc = 1 THEN 4
    ELSE 5

\* The scan_cache entry built from the result res of compute_all.
ScanEntry(res) ==
    IF res # EmptyResult
    THEN [stars_n |-> _stars_n(res.score), signal |-> res.signal, result |-> res]
    ELSE [stars_n |-> 3, signal |-> "N/A", result |-> EmptyResult]

\* [t for t in watchlist if t not in scan_cache]
Missing(wl, sc) == {wl[i] : i \in 1..Len(wl)} \ DOMAIN sc

\* The auto-scan: every missing ticker gets an entry from freshly fetched data.
AutoScan(sc, fetched) ==
    [t \in DOMAIN sc \cup DOMAIN fetched |->
        IF t \in DOMAIN fetched THEN ScanEntry(fetched[t]) ELSE sc[t]]

\* ai_analysis.analyse(tk, info, result, news): the analysis, with the scan
\* result it was computed from.
analyse(tk, res) == [ticker |-> tk, result |-> res]

\* The AI detail panel: the analysis of the open ticker is computed from its
\* scan_cache entry unless ai_detail_cache already holds one.
DetailPanel(tk, sc, ai) ==
    IF tk = None \/ tk \in DOMAIN ai THEN ai
    ELSE LET res == IF tk \in DOMAIN sc THEN sc[tk].result ELSE EmptyResult
         IN  Put(ai, tk, analyse(tk, res))

\* One run of the script below the sidebar, from the session state the
\* handler left: st.stop() on an empty watchlist, else the auto-scan and
\* the detail panel.  Returns <<scan_cache, ai_detail_cache>>.
ScriptRun(wl, sc, tk, ai, fetched) ==
    IF wl = <<>> THEN <<sc, ai>>
    ELSE LET scanned == AutoScan(sc, fetched)
         IN  <<scanned, DetailPanel(tk, scanned, ai)>>

\* The rerun that follows a handler, with the data the scan fetches.
Rerun(wl, sc, tk, ai) ==
    \E fetched \in [Missing(wl, sc) -> ScanOutcomes] :
        LET r == ScriptRun(wl, sc, tk, ai, IF wl = <<>> THEN EmptyDict ELSE fetched)
        IN  /\ scan_cache' = r[1]
            /\ ai_detail_cache' = r[2]

\* The first run of the script: session defaults, watchlist loaded, scan.
InitSession ==
    /\ PipelineIdle
    /\ file \in StoredLists
    /\ watchlist = load
    /\ call = NoCall
    /\ detail_ticker = None
    /\ \E fetched \in [Missing(watchlist, EmptyDict) -> ScanOutcomes] :
          /\ scan_cache = ScriptRun(watchlist, EmptyDict, None, EmptyDict, fetched)[1]
          /\ ai_detail_cache = ScriptRun(watchlist, EmptyDict, None, EmptyDict, fetched)[2]

\* The add_ticker form: a blank input only reruns the script.
AddTicker ==
    \E new_ticker \in TypedTickers :
        IF strip(new_ticker) # <<>>
        THEN LET t == upper(strip(new_ticker))
                 r == add(t, watchlist)
             IN  /\ watchlist' = r.ret
                 /\ Called("add", r)
                 /\ Rerun(r.ret, scan_cache, detail_ticker, ai_detail_cache)
                 /\ UNCHANGED <<pipeline, detail_ticker>>
        ELSE /\ Rerun(watchlist, scan_cache, detail_ticker, ai_detail_cache)
             /\ UNCHANGED <<pipeline, file, call, watchlist, detail_ticker>>

\* The remove button of a watchlist row.
RemoveTicker ==
    \E i \in 1..Len(watchlist) :
        LET ticker == watchlist[i]
            r      == remove(ticker, watchlist)
            sc     == Pop(scan_cache, ticker)
            tk     == IF detail_ticker = ticker THEN None ELSE detail_ticker
        IN  /\ watchlist' = r.ret
            /\ Called("remove", r)
            /\ detail_ticker' = tk
            /\ Rerun(r.ret, sc, tk, ai_detail_cache)
            /\ UNCHANGED pipeline

\* The Refresh button: both caches are emptied.
Refresh ==
    /\ watchlist # <<>>
    /\ Rerun(watchlist, EmptyDict, detail_ticker, EmptyDict)
    /\ UNCHANGED <<pipeline, file, call, watchlist, detail_ticker>>

\* The AI Analysis button of a table row.
OpenDetail ==
    \E i \in 1..Len(watchlist) :
        /\ detail_ticker' = watchlist[i]
        /\ Rerun(watchlist, scan_cache, watchlist[i], ai_detail_cache)
        /\ UNCHANGED <<pipeline, file, call, watchlist>>

\* The Close button of the detail panel.
CloseDetail ==
    /\ watchlist # <<>>
    /\ detail_ticker # None
    /\ detail_ticker' = None
    /\ Rerun(watchlist, scan_cache, None, ai_detail_cache)
    /\ UNCHANGED <<pipeline, file, call, watchlist>>

NextSession ==
    \/ AddTicker
    \/ RemoveTicker
    \/ Refresh
    \/ OpenDetail
    \/ CloseDetail

SpecSession == InitSession /\ [][NextSession]_vars

---------------------------------------------------------------------------
(* Properties *)

\* compute_all has returned a populated record.
Returned == pc = "done" /\ result # EmptyResult

\* The frame has all its columns.
Complete(d) == DOMAIN d.col = AllColumns

\* MaxBars bars whose close starts at `first` and moves by `step` per bar,
\* with high = low = close and a constant volume.
Ramp(d, first, step) ==
    /\ d.n = MaxBars
    /\ Complete(d)
    /\ \A i \in 1..d.n :
         /\ d.col.Close[i] = first + step * (i - 1)
         /\ d.col.High[i] = d.col.Close[i]
         /\ d.col.Low[i] = d.col.Close[i]
         /\ d.col.Volume[i] = d.col.Volume[1]

\* Scenario A: close rises by 1 per bar from BasePrice.
ScenarioA == Ramp(df, BasePrice, 1)

\* Scenario B: close falls by 1 per bar down to BasePrice.
ScenarioB == Ramp(df, BasePrice + (MaxBars - 1), -1)

\* Scenario C: close stays at BasePrice.
ScenarioC == Ramp(df, BasePrice, 0)

\* C1: once the guard has run, an input of fewer than MinBars bars has made
\* compute_all return the empty result (and nothing else), and a populated
\* record (values, interp, score, signal, series) is returned only for an
\* input of at least MinBars bars.
C1_EmptyBelowMinBars ==
    /\ (df.n < 30 /\ pc # "start") => (pc = "done" /\ result = EmptyResult)
    /\ Returned =>
         /\ df.n >= 30
         /\ DOMAIN result = {"values", "interp", "score", "signal", "series"}

C1_Witness == pc = "done" /\ df.n = 29 /\ result = EmptyResult

\* The entries of the latest dict that are floats.
FloatKeys ==
    {"close", "rsi", "macd", "macd_signal", "macd_hist", "ema_short", "ema_long",
     "bb_upper", "bb_mid", "bb_lower", "stoch_k", "stoch_d", "atr"}

\* C2 (as claimed): whenever compute_all returns a populated record, no
\* entry of the latest-values snapshot is NaN.
C2_NoUndefinedLatest ==
    Returned => \A k \in FloatKeys : ~IsNaN(result.values[k])

\* C3 (as claimed): on scenario C compute_all raises nothing, and the record
\* it returns reports the Bollinger position and the Stochastic reading as
\* undefined.
C3_FlatSeriesCompletes ==
    ScenarioC =>
        /\ pc # "raised"
        /\ pc = "done" =>
             /\ Returned
             /\ \A a \in {result.interp.bb.args[j] : j \in DOMAIN result.interp.bb.args} :
                    IsNaN(a)
             /\ IsNaN(result.values.stoch_k)

\* C4: the returned score is an integer of -3..3, and the signal is BUY
\* exactly when score >= 2, SELL exactly when score <= -2, HOLD otherwise.
C4_ScoreRangeAndSignal ==
    Returned =>
        /\ result.score \in -3..3
        /\ (result.signal = "BUY") <=> (result.score >= 2)
        /\ (result.signal = "SELL") <=> (result.score <= -2)
        /\ (result.signal = "HOLD") <=> (result.score > -2 /\ result.score < 2)

C4_Witness == Returned /\ result.signal = "SELL" /\ result.score = -2

\* C5: the returned score is the sum of the RSI vote (+1 below 35, -1 above
\* 65, 0 otherwise, NaN included), the MACD vote (+1 if macd > macd_signal,
\* else -1) and the EMA vote (+1 if ema_short > ema_long, else -1) of the
\* returned snapshot, so it is a function of these five entries alone; the
\* signal is the one that score gives.
C5_ScoreIsThreeVotes ==
    Returned =>
        LET v    == result.values
            rsiV == IF v.rsi.def /\ v.rsi.v < 3500 THEN 1
                    ELSE IF v.rsi.def /\ v.rsi.v > 6500 THEN -1 ELSE 0
            macV == IF v.macd.v > v.macd_signal.v THEN 1 ELSE -1
            emaV == IF v.ema_short.v > v.ema_long.v THEN 1 ELSE -1
            sum  == rsiV + macV + emaV
        IN  /\ result.score = sum
            /\ result.signal = (IF sum >= 2 THEN "BUY"
                                ELSE IF sum <= -2 THEN "SELL" ELSE "HOLD")

\* A returned record whose RSI votes -1 while the Stochastic reading is
\* oversold: an indicator outside the three votes disagrees with the score.
C5_Witness ==
    /\ Returned
    /\ result.values.rsi.def /\ result.values.rsi.v > 6500
    /\ result.values.stoch_k.def /\ result.values.stoch_k.v < 2000

\* C6 (as claimed): on scenario B the MACD and EMA votes are both -1, the
\* score is -3 or -2 and the signal is SELL.
C6_ScenarioBSell ==
    (ScenarioB /\ pc = "done") =>
        /\ Returned
        /\ result.values.macd.v <= result.values.macd_signal.v
        /\ result.values.ema_short.v <= result.values.ema_long.v
        /\ result.score \in {-3, -2}
        /\ result.signal = "SELL"

\* C6 (amended): on scenario B compute_all raises nothing and returns a
\* record in which the MACD and EMA votes are both -1, the RSI is 0 (no
\* gain at all), so that the RSI vote is +1: the score is -1 and the signal
\* is HOLD.
C6_ScenarioBHold ==
    ScenarioB =>
        /\ pc # "raised"
        /\ pc = "done" =>
             /\ Returned
             /\ result.values.macd.v <= result.values.macd_signal.v
             /\ result.values.ema_short.v <= result.values.ema_long.v
             /\ result.values.rsi = Def(0)
             /\ result.score = -1
             /\ result.signal = "HOLD"

C6_Witness == ScenarioB /\ pc = "done"

\* C7: on scenario A compute_all raises nothing and returns a record in
\* which EMA(9) exceeds EMA(21), MACD is classified bullish, the MACD and EMA
\* votes are both +1, the average loss is exactly 0, the score is 2 or 3 and
\* the signal is BUY.
C7_ScenarioABuy ==
    ScenarioA =>
        /\ pc # "raised"
        /\ Last(AvgLoss(AsFloat(df.col.Close), 14)) = Def(0)
        /\ pc = "done" =>
             /\ Returned
             /\ result.values.ema_short.v > result.values.ema_long.v
             /\ result.values.macd.v > result.values.macd_signal.v
             /\ result.interp.macd.label = "Bullish"
             /\ result.score \in {2, 3}
             /\ result.signal = "BUY"

C7_Witness == ScenarioA /\ pc = "done"

\* C8 (as claimed): in a returned record, an oscillator whose latest value
\* is NaN is not labelled oversold, overbought or neutral.
C8_UndefinedIsIndeterminate ==
    Returned =>
        LET classified == {"Oversold", "Overbought", "Neutral"}
        IN  /\ IsNaN(result.values.rsi) => result.interp.rsi.label \notin classified
            /\ (IsNaN(result.values.stoch_k) \/ IsNaN(result.values.stoch_d))
                   => result.interp.stoch.label \notin classified

\* C9 (as claimed): compute_all never raises, and once it has read the
\* columns of an input of at least MinBars rows that lacks a required column
\* it has returned the empty result.
C9_MissingColumnGivesEmpty ==
    /\ pc # "raised"
    /\ (df.n >= 30 /\ ~(RequiredColumns \subseteq DOMAIN df.col)
            /\ pc \notin {"start", "columns"})
           => (pc = "done" /\ result = EmptyResult)

\* The keys under which each output map holds the indicators of the table.
IndicatorKeys ==
    [MACD       |-> {"macd", "macd_signal", "macd_hist", "macd_line", "sig_line", "hist"},
     EMA        |-> {"ema_short", "ema_long", "ema_cross"},
     RSI        |-> {"rsi"},
     Stochastic |-> {"stoch_k", "stoch_d", "stoch"},
     Bollinger  |-> {"bb_upper", "bb_mid", "bb_lower", "bb"},
     ATR        |-> {"atr"},
     OBV        |-> {"obv"},
     VolumeAvg  |-> {"volume_avg", "volume"}]

\* The indicators with an entry in the map m.
Covered(m) == {x \in DOMAIN IndicatorKeys : IndicatorKeys[x] \cap DOMAIN m # {}}

---------------------------------------------------------------------------
(* Stochastic %K *)

\* The indicator series have been computed from a frame with every column.
Computed == ind # None

\* Every bar has low <= close <= high.
OrderedBars(d) ==
    \A i \in 1..d.n : d.col.Low[i] <= d.col.Close[i] /\ d.col.Close[i] <= d.col.High[i]

\* The highest high and the lowest low of the 14 bars that end at bar i.
HighestHigh(d, i) == MaxOver(d.col.High, i - 13, i)
LowestLow(d, i) == MinOver(d.col.Low, i - 13, i)

KInRange(k) == 0 <= k.v /\ k.v <= 100 * SCALE

\* %K is 100 where close is the window's highest high and 0 where it is the
\* window's lowest low.
KAtExtremes(d, k, i) ==
    /\ d.col.Close[i] = HighestHigh(d, i) => k.v = 100 * SCALE
    /\ d.col.Close[i] = LowestLow(d, i) => k.v = 0

\* C11 as stated: for every frame of finite numbers, %K is within [0, 100]
\* wherever it is defined, 100 at the window's highest high and 0 at its
\* lowest low.
C11_KBoundedForEveryFrame ==
    Computed =>
        \A i \in 1..df.n :
            ~IsNaN(ind.stoch_k[i]) =>
                KInRange(ind.stoch_k[i]) /\ KAtExtremes(df, ind.stoch_k[i], i)

\* C11, amended: when every bar has low <= close <= high, %K is within
\* [0, 100] wherever it is defined, 100 where close equals the highest high of
\* the trailing 14 bars and 0 where it equals their lowest low.
C11_KBoundedForOrderedBars ==
    (Computed /\ OrderedBars(df)) =>
        \A i \in 1..df.n :
            ~IsNaN(ind.stoch_k[i]) =>
                KInRange(ind.stoch_k[i]) /\ KAtExtremes(df, ind.stoch_k[i], i)

\* Ordered bars with %K = 100 at a window high, %K = 0 at a window low and a
\* value strictly between at some other bar.
C11_Witness ==
    /\ Computed
    /\ OrderedBars(df)
    /\ \E i \in 1..df.n : /\ ~IsNaN(ind.stoch_k[i])
                           /\ df.col.Close[i] = HighestHigh(df, i)
                           /\ ind.stoch_k[i].v = 100 * SCALE
    /\ \E i \in 1..df.n : /\ ~IsNaN(ind.stoch_k[i])
                           /\ df.col.Close[i] = LowestLow(df, i)
                           /\ ind.stoch_k[i].v = 0
    /\ \E i \in 1..df.n : /\ ~IsNaN(ind.stoch_k[i])
                           /\ 0 < ind.stoch_k[i].v
                           /\ ind.stoch_k[i].v < 100 * SCALE

---------------------------------------------------------------------------
(* MACD interpretation *)

MacdAbove(v) ==
    v.macd.def /\ v.macd_signal.def /\ v.macd.v > v.macd_signal.v

MacdBelow(v) ==
    v.macd.def /\ v.macd_signal.def /\ v.macd.v < v.macd_signal.v

\* C12: the MACD interpretation of a returned record is one of Bullish,
\* Bearish and Crossing; it is Bullish exactly when the latest histogram is
\* positive and macd is above macd_signal, Bearish exactly when the histogram
\* is negative and macd is below macd_signal, and Crossing in every other
\* case.
C12_MacdInterpretation ==
    Returned =>
        LET v     == result.values
            label == result.interp.macd.label
            up    == MacdAbove(v) /\ v.macd_hist.def /\ v.macd_hist.v > 0
            down  == MacdBelow(v) /\ v.macd_hist.def /\ v.macd_hist.v < 0
        IN  /\ label \in {"Bullish", "Bearish", "Crossing"}
            /\ label = "Bullish" <=> up
            /\ label = "Bearish" <=> down
            /\ label = "Crossing" <=> (~up /\ ~down)

\* A returned record whose rounded macd is above its rounded macd_signal
\* while its histogram rounds to 0: the interpretation is Crossing.
C12_Witness ==
    /\ Returned
    /\ MacdAbove(result.values)
    /\ result.values.macd_hist = Def(0)
    /\ result.interp.macd.label = "Crossing"

---------------------------------------------------------------------------
(* Volume label *)

\* Sum of the last 20 volumes: 20 times their exact mean.
VolumeWindowSum(d) == SumOver(d.col.Volume, d.n - 19, d.n)

\* C13: the volume label of a returned record follows the ratio of the
\* latest volume to the exact 20-bar mean: High volume exactly when
\* volume / mean > 1.5 (20 * volume * 2 > 3 * sum), Low volume exactly when
\* volume / mean < 0.5 (20 * volume * 2 < sum), Normal volume otherwise.
C13_VolumeLabelByExactRatio ==
    Returned =>
        LET vol   == df.col.Volume[df.n]
            total == VolumeWindowSum(df)
            label == result.interp.volume.label
        IN  /\ label = "High volume" <=> 40 * vol > 3 * total
            /\ label = "Low volume" <=> 40 * vol < total
            /\ label = "Normal volume" <=> (40 * vol <= 3 * total /\ 40 * vol >= total)

---------------------------------------------------------------------------
(* The signal and the three votes *)

EmaAbove(v) ==
    v.ema_short.def /\ v.ema_long.def /\ v.ema_short.v > v.ema_long.v

\* C14: in every returned record, BUY implies macd > macd_signal and
\* ema_short > ema_long, SELL implies that neither holds, and the signal is
\* HOLD whenever exactly one of the two holds, whatever the RSI is.
C14_SignalNeedsBothTrendVotes ==
    Returned =>
        LET v == result.values
        IN  /\ result.signal = "BUY" => (MacdAbove(v) /\ EmaAbove(v))
            /\ result.signal = "SELL" => (~MacdAbove(v) /\ ~EmaAbove(v))
            /\ MacdAbove(v) # EmaAbove(v) => result.signal = "HOLD"

\* A returned record in which the MACD vote and the EMA vote disagree and
\* the RSI casts a vote: the signal is HOLD.
C14_Witness ==
    /\ Returned
    /\ MacdAbove(result.values) # EmaAbove(result.values)
    /\ result.values.rsi.def
    /\ result.values.rsi.v < 3500 \/ result.values.rsi.v > 6500
    /\ result.score # 0
    /\ result.signal = "HOLD"

---------------------------------------------------------------------------
(* The dashboard's caches *)

\* The detail panel is on screen.
DetailShown == watchlist # <<>> /\ detail_ticker # None

\* C15: in every state of the session the analysis shown in the detail
\* panel, ai_detail_cache[detail_ticker], was computed from the scan result
\* that scan_cache holds for that ticker.
C15_ShownAnalysisIsOfCurrentScan ==
    DetailShown =>
        /\ detail_ticker \in DOMAIN ai_detail_cache
        /\ detail_ticker \in DOMAIN scan_cache
        /\ ai_detail_cache[detail_ticker].result = scan_cache[detail_ticker].result

---------------------------------------------------------------------------
(* The watchlist and its file *)

NoDuplicates(tickers) ==
    \A i, j \in 1..Len(tickers) : i # j => tickers[i] # tickers[j]

\* C16: after any sequence of add and remove calls, each applied to the list
\* the previous call returned, the list holds no ticker twice, the list
\* passed to add is after the call what it was before, and watchlist.json
\* holds the list returned last.
C16_ListAndFileAgree ==
    /\ NoDuplicates(watchlist)
    /\ call.op = "add" => call.after = call.before
    /\ file = watchlist

\* An add of a new ticker to a non-empty list, written to the file.
C16_Witness ==
    /\ call.op = "add"
    /\ Len(call.before) >= 2
    /\ Len(watchlist) = Len(call.before) + 1
    /\ file = watchlist

===========================================================================
